---- MODULE Spec2Model ----
(***************************************************************************)
(* A model of the interactive Wordle solver of src/wordle.py.              *)
(*                                                                         *)
(* A word is a sequence of 5 one-character strings, a feedback a sequence  *)
(* of 5 numbers in 0..2 (0 gray, 1 yellow, 2 green), a raw input line a    *)
(* sequence of characters.  The pure functions of the program are          *)
(* operators computed the way the code computes them; the solve loop is a  *)
(* state machine with one action for the loading of the dictionary (lines  *)
(* 106-114), one for the head of the loop (lines 116-121) and one for the  *)
(* rest of the iteration, which starts when input() returns (lines         *)
(* 122-143).                                                               *)
(***************************************************************************)
EXTENDS Integers, Sequences, FiniteSets, TLC

VARIABLES
    word_list,   \* interactive_solve: the loaded dictionary (line 106)
    candidates,  \* interactive_solve: the candidate pool (lines 107, 141)
    round_num,   \* interactive_solve: the round counter (lines 114, 143)
    guess,       \* interactive_solve: the suggestion of the iteration (line 120)
    pc,          \* where the loop is: "top", "input", or how it returned
    err,         \* the last thing printed is the ValueError message (line 131)
    history,     \* the "You entered:" lines printed so far (line 135)
    fb_input,    \* interactive_solve: the line read, stripped and lowered (line 122)
    secret,      \* the word the user has in mind (NoWord when any input may come)
    call         \* a call of one of the pure functions: its name, arguments, result

vars == <<word_list, candidates, round_num, guess, pc, err, history, fb_input, secret, call>>

----------------------------------------------------------------------------
(* Program constants. *)

\* range(5), [0] * 5 : the length of a word and of a feedback
WordLen == 5

\* VOWELS = set("aeiou")
VOWELS == {"a","e","i","o","u"}

\* Python's None, written into secret_chars for a consumed letter
None == "None"

\* [2, 2, 2, 2, 2]
AllExact == <<2, 2, 2, 2, 2>>

\* the line "exit"
Exit == <<"e","x","i","t">>

\* no word (no guess made yet, no secret fixed)
NoWord == <<>>

\* what a function that raised ValueError leaves in place of a word
Raised == <<"ValueError">>

Range(s) == {s[i] : i \in 1..Len(s)}

----------------------------------------------------------------------------
(* evaluate_guess, lines 9-30. *)

\* list.index: the first position holding x
IndexOf(s, x) == CHOOSE i \in 1..Len(s) : s[i] = x /\ \A j \in 1..(i-1) : s[j] # x

\* first pass, the feedback: greens
FirstPassFeedback(g, s) == [i \in 1..WordLen |-> IF g[i] = s[i] THEN 2 ELSE 0]

\* first pass, secret_chars: the green positions are consumed
FirstPassChars(g, s) == [i \in 1..WordLen |-> IF g[i] = s[i] THEN None ELSE s[i]]

\* variants of line 29: every occurrence of the letter consumed, and none
ConsumeAll(secret_chars, ch) ==
    [j \in 1..Len(secret_chars) |-> IF secret_chars[j] = ch THEN None ELSE secret_chars[j]]

NoConsume(secret_chars, ch) == secret_chars

\* line 29: the first remaining occurrence of the letter is consumed
Consume(secret_chars, ch) == [secret_chars EXCEPT ![IndexOf(secret_chars, ch)] = None]

\* second pass from position i on: yellows, each consuming one letter of the secret
RECURSIVE SecondPass(_, _, _, _)
SecondPass(g, feedback, secret_chars, i) ==
    IF i > WordLen THEN feedback
    ELSE IF feedback[i] = 0 /\ g[i] \in Range(secret_chars)
         THEN SecondPass(g, [feedback EXCEPT ![i] = 1], Consume(secret_chars, g[i]), i + 1)
         ELSE SecondPass(g, feedback, secret_chars, i + 1)

evaluate_guess(g, s) == SecondPass(g, FirstPassFeedback(g, s), FirstPassChars(g, s), 1)

----------------------------------------------------------------------------
(* str.strip and str.lower, as used on lines 38 and 122. *)

Whitespace == {" ", "\t", "\n"}

RECURSIVE LStrip(_)
LStrip(s) == IF s # <<>> /\ Head(s) \in Whitespace THEN LStrip(Tail(s)) ELSE s

RECURSIVE RStrip(_)
RStrip(s) ==
    IF s # <<>> /\ s[Len(s)] \in Whitespace THEN RStrip(SubSeq(s, 1, Len(s) - 1)) ELSE s

Strip(s) == RStrip(LStrip(s))

\* the upper-case letters an input line of the model can hold
LowerChar(c) ==
    CASE c = "G" -> "g" [] c = "Y" -> "y" [] c = "B" -> "b"
      [] c = "E" -> "e" [] c = "X" -> "x" [] c = "I" -> "i" [] c = "T" -> "t"
      [] OTHER -> c

Lower(s) == [i \in 1..Len(s) |-> LowerChar(s[i])]

----------------------------------------------------------------------------
(* feedback_string_to_list, lines 32-41: the result, or that it raised. *)

\* a variant of the table of line 41, y and b exchanged
SwappedValue(ch) == CASE ch = "g" -> 2 [] ch = "y" -> 0 [] ch = "b" -> 1

\* {"g":2, "y":1, "b":0}[ch]
SymbolValue(ch) == CASE ch = "g" -> 2 [] ch = "y" -> 1 [] ch = "b" -> 0

feedback_string_to_list(raw) ==
    LET fb_str == Lower(Strip(raw))
    IN  IF Len(fb_str) # 5 \/ \E i \in 1..Len(fb_str) : fb_str[i] \notin {"g", "y", "b"}
        THEN [raised |-> TRUE, val |-> <<>>]
        ELSE [raised |-> FALSE, val |-> [i \in 1..Len(fb_str) |-> SymbolValue(fb_str[i])]]

(* format_feedback, lines 43-49.  The three emoji are written by their      *)
(* code points; each is one character of a Python string.                   *)
Emoji(f) == CASE f = 2 -> "U+1F7E9" [] f = 1 -> "U+1F7E8" [] f = 0 -> "U+2B1C"

format_feedback(g, feedback) ==
    [i \in 1..Len(feedback) |-> Emoji(feedback[i])] \o <<" ", " ", " ", "(">> \o g \o <<")">>

----------------------------------------------------------------------------
(* filter_candidates, lines 51-60. *)

RECURSIVE FilterLoop(_, _, _, _, _)
FilterLoop(cands, last_guess, last_fb, k, out) ==
    IF k > Len(cands) THEN out
    ELSE FilterLoop(cands, last_guess, last_fb, k + 1,
                    IF evaluate_guess(last_guess, cands[k]) = last_fb
                    THEN Append(out, cands[k]) ELSE out)

\* variants of the filter: one that compares only the green positions, and one
\* whose loop starts at the second word
GreensOnlyFilter(cands, last_guess, last_fb) ==
    SelectSeq(cands, LAMBDA w :
        \A i \in 1..WordLen : (evaluate_guess(last_guess, w)[i] = 2) <=> (last_fb[i] = 2))

SkipFirstFilter(cands, last_guess, last_fb) == FilterLoop(cands, last_guess, last_fb, 2, <<>>)

filter_candidates(cands, last_guess, last_fb) == FilterLoop(cands, last_guess, last_fb, 1, <<>>)

----------------------------------------------------------------------------
(* pick_smart, lines 62-103. *)

\* sum(1 for ch in w if ch in VOWELS): every vowel occurrence counts
VowelCount(w) == Cardinality({i \in 1..Len(w) : w[i] \in VOWELS})

\* max(count for count, _ in vowel_counts)
MaxVowel(cands) ==
    LET counts == {VowelCount(cands[k]) : k \in 1..Len(cands)}
    IN  CHOOSE m \in counts : \A c \in counts : c <= m

\* [w for count, w in vowel_counts if count == max_vowel]
VowelHeavy(cands) == SelectSeq(cands, LAMBDA w : VowelCount(w) = MaxVowel(cands))

\* freq[i][ch] after the loop of lines 84-86: the words of cands with ch at position i
Freq(cands, i, ch) == Cardinality({k \in 1..Len(cands) : cands[k][i] = ch})

\* the inner loop of lines 94-98 from position i on
RECURSIVE ScoreLoop(_, _, _, _, _)
ScoreLoop(cands, w, i, seen, score) ==
    IF i > Len(w) THEN score
    ELSE IF w[i] \in seen
         THEN ScoreLoop(cands, w, i + 1, seen, score)
         ELSE ScoreLoop(cands, w, i + 1, seen \cup {w[i]}, score + Freq(cands, i, w[i]))

WordScore(cands, w) == ScoreLoop(cands, w, 1, {}, 0)

\* a variant of line 99 where the last of the best words wins
LastWins(score, best_score) == score >= best_score

\* if score > best_score
Better(score, best_score) == score > best_score

\* the loop of lines 91-101 from the k-th vowel-heavy word on
RECURSIVE BestLoop(_, _, _, _, _)
BestLoop(cands, vowel_heavy, k, best_score, best_word) ==
    IF k > Len(vowel_heavy) THEN best_word
    ELSE LET score == WordScore(cands, vowel_heavy[k])
         IN  IF Better(score, best_score)
             THEN BestLoop(cands, vowel_heavy, k + 1, score, vowel_heavy[k])
             ELSE BestLoop(cands, vowel_heavy, k + 1, best_score, best_word)

\* max() of an empty sequence raises ValueError (line 74)
pick_smart(cands) ==
    IF cands = <<>> THEN Raised
    ELSE LET vowel_heavy == VowelHeavy(cands)
         IN  IF Len(vowel_heavy) = 1 THEN vowel_heavy[1]
             ELSE BestLoop(cands, vowel_heavy, 1, -1, vowel_heavy[1])

----------------------------------------------------------------------------
(* The inputs the model draws from. *)

\* the longest dictionary loaded
MaxDict == 3

\* the longest pool handed to a pure function
MaxPool == 3

crane == <<"c","r","a","n","e">>
slate == <<"s","l","a","t","e">>
adieu == <<"a","d","i","e","u">>
speed == <<"s","p","e","e","d">>
erase == <<"e","r","a","s","e">>
allee == <<"a","l","l","e","e">>
eagle == <<"e","a","g","l","e">>
eerie == <<"e","e","r","i","e">>

\* the words that the lines of words.txt can be
NamedWords == {crane, slate, adieu, speed, erase, allee, eagle, eerie}

DictWords == {adieu, crane, slate}

TruthWords == {adieu, crane, slate, erase}

\* load_words, lines 1-7: the lines of 5 characters, in file order (a line may repeat)
DictsOver(words) == UNION {[1..n -> words] : n \in 0..MaxDict}

\* every feedback: the sequences of 5 values in 0..2
Feedbacks == [1..WordLen -> 0..2]

\* the lines of 5 letters from g, y, b
GybLines == [1..WordLen -> {"g", "y", "b"}]

UpperChar(c) == CASE c = "g" -> "G" [] c = "y" -> "Y" [] c = "b" -> "B" [] OTHER -> c

\* a line as typed, in upper case, and with blanks around it
Typings(l) == {l, [i \in 1..Len(l) |-> UpperChar(l[i])], <<" ">> \o l \o <<" ", "\n">>}

\* lines that are too short or too long, lines with a foreign character, the empty line
BadLines ==
    {<<>>, <<" ">>, <<"g","g","y","b">>, <<"g","g","y","b","x">>,
     <<"g","g","y","b","b","g">>, <<"g","g"," ","b","b">>, <<"2","2","1","0","0">>}

\* the word exit
ExitLines == {Exit, <<"E","X","I","T">>, <<" ">> \o Exit \o <<"\n">>}

\* the lines a user types in a session: every line of 5 letters from g, y, b, two
\* of them also in upper case and with blanks around, the bad lines and exit
RawInputs ==
    GybLines \cup BadLines \cup ExitLines
      \cup Typings(<<"g","g","g","g","g">>) \cup Typings(<<"b","y","b","b","g">>)

----------------------------------------------------------------------------
(* interactive_solve, lines 105-143. *)

NoCall == [op |-> "none", args |-> <<>>, done |-> FALSE, ret |-> <<>>]

\* before line 106: nothing is loaded
Init ==
    /\ word_list = <<>>
    /\ candidates = <<>>
    /\ round_num = 1
    /\ guess = NoWord
    /\ pc = "load"
    /\ err = FALSE
    /\ history = <<>>
    /\ fb_input = <<>>
    /\ secret = NoWord
    /\ call = NoCall

\* lines 106-114: the dictionary words.txt holds is loaded and copied
Load(words) ==
    /\ pc = "load"
    /\ word_list' = words
    /\ candidates' = words
    /\ round_num' = 1
    /\ pc' = "top"
    /\ UNCHANGED <<guess, err, history, fb_input, call>>

LoadWords ==
    /\ pc = "load"
    /\ \E words \in DictsOver(DictWords) : Load(words) /\ UNCHANGED secret

\* a variant of the head of the loop without the test of line 116
UncheckedHead ==
    /\ pc = "top"
    /\ guess' = pick_smart(candidates)
    /\ pc' = "input"
    /\ err' = FALSE
    /\ UNCHANGED <<word_list, candidates, round_num, history, fb_input, secret, call>>

\* lines 116-121: the head of the loop, up to the prompt
LoopHead ==
    /\ pc = "top"
    /\ IF candidates = <<>>
       THEN /\ pc' = "exhausted"
            /\ UNCHANGED <<guess, err>>
       ELSE /\ guess' = pick_smart(candidates)
            /\ pc' = "input"
            /\ err' = FALSE
    /\ UNCHANGED <<word_list, candidates, round_num, history, fb_input, secret, call>>

\* variants of the rest of the iteration: one where a rejected line costs a round
\* and a candidate, and one that filters the dictionary instead of the pool
LossyReadInput(raw) ==
    /\ pc = "input"
    /\ fb_input' = Lower(Strip(raw))
    /\ LET r == feedback_string_to_list(fb_input')
       IN  IF fb_input' = Exit
           THEN /\ pc' = "aborted"
                /\ UNCHANGED <<candidates, round_num, err, history>>
           ELSE IF r.raised
           THEN /\ pc' = "top"
                /\ err' = TRUE
                /\ candidates' = Tail(candidates)
                /\ round_num' = round_num + 1
                /\ UNCHANGED history
           ELSE /\ pc' = IF r.val = AllExact THEN "solved" ELSE "top"
                /\ candidates' = IF r.val = AllExact THEN candidates
                                 ELSE filter_candidates(candidates, guess, r.val)
                /\ round_num' = IF r.val = AllExact THEN round_num ELSE round_num + 1
                /\ history' = Append(history, <<guess, r.val>>)
                /\ UNCHANGED err
    /\ UNCHANGED <<word_list, guess, secret, call>>

StaleReadInput(raw) ==
    /\ pc = "input"
    /\ fb_input' = Lower(Strip(raw))
    /\ LET r == feedback_string_to_list(fb_input')
       IN  IF fb_input' = Exit
           THEN /\ pc' = "aborted"
                /\ UNCHANGED <<candidates, round_num, err, history>>
           ELSE IF r.raised
           THEN /\ pc' = "top"
                /\ err' = TRUE
                /\ UNCHANGED <<candidates, round_num, history>>
           ELSE /\ pc' = IF r.val = AllExact THEN "solved" ELSE "top"
                /\ candidates' = IF r.val = AllExact THEN candidates
                                 ELSE filter_candidates(word_list, guess, r.val)
                /\ round_num' = IF r.val = AllExact THEN round_num ELSE round_num + 1
                /\ history' = Append(history, <<guess, r.val>>)
                /\ UNCHANGED err
    /\ UNCHANGED <<word_list, guess, secret, call>>

\* lines 122-143: the rest of the iteration, once the user has typed raw
ReadInput(raw) ==
    /\ pc = "input"
    /\ fb_input' = Lower(Strip(raw))
    /\ LET r == feedback_string_to_list(fb_input')
       IN  IF fb_input' = Exit
           THEN /\ pc' = "aborted"
                /\ UNCHANGED <<candidates, round_num, err, history>>
           ELSE IF r.raised
           THEN /\ pc' = "top"
                /\ err' = TRUE
                /\ UNCHANGED <<candidates, round_num, history>>
           ELSE IF r.val = AllExact
           THEN /\ pc' = "solved"
                /\ history' = Append(history, <<guess, r.val>>)
                /\ UNCHANGED <<candidates, round_num, err>>
           ELSE /\ candidates' = filter_candidates(candidates, guess, r.val)
                /\ round_num' = round_num + 1
                /\ history' = Append(history, <<guess, r.val>>)
                /\ pc' = "top"
                /\ UNCHANGED err
    /\ UNCHANGED <<word_list, guess, secret, call>>

\* the user types any line
UserTypes == pc = "input" /\ \E raw \in RawInputs : ReadInput(raw)

Next == LoadWords \/ LoopHead \/ UserTypes

Spec == Init /\ [][Next]_vars

----------------------------------------------------------------------------
(* The session of a user who has a word of the dictionary in mind and, in  *)
(* every round, types the feedback of the suggestion against that word.    *)
(* input() blocks until the user types, and this user always does; the     *)
(* loop itself never waits: each step that can be taken is taken.          *)

\* the dictionary holds the word the user has in mind
TruthLoad ==
    /\ pc = "load"
    /\ \E words \in DictsOver(TruthWords) :
          /\ words # <<>>
          /\ Load(words)
          /\ secret' \in Range(words)

\* the line of a feedback, as the user reads it off the game: g green, y yellow, b gray
UserLine(fb) == [i \in 1..Len(fb) |-> CASE fb[i] = 2 -> "g" [] fb[i] = 1 -> "y" [] fb[i] = 0 -> "b"]

TruthfulUser ==
    /\ pc = "input"
    /\ \E raw \in Typings(UserLine(evaluate_guess(guess, secret))) : ReadInput(raw)

TruthNext == TruthLoad \/ LoopHead \/ TruthfulUser

TruthSpec == Init /\ [][TruthNext]_vars /\ WF_vars(TruthNext)

----------------------------------------------------------------------------
(* The pure functions, each applied to arguments drawn from bounded sets.  *)

\* the words evaluate_guess is applied to: every word over three letters, and
\* the words of the worked examples
EvalWords == [1..WordLen -> {"a", "e", "l"}] \cup {speed, erase, allee, eagle}

PoolsOver(words) == UNION {[1..n -> words] : n \in 0..MaxPool}

Pending(op, args) == [op |-> op, args |-> args, done |-> FALSE, ret |-> <<>>]

\* the lines feedback_string_to_list is applied to
DecodeLines == (UNION {Typings(l) : l \in GybLines}) \cup BadLines \cup ExitLines

FnInit ==
    /\ \/ \E g \in EvalWords, s \in EvalWords : call = Pending("evaluate_guess", <<g, s>>)
       \/ \E p \in PoolsOver(DictWords), g \in DictWords, f \in Feedbacks :
             call = Pending("filter_candidates", <<p, g, f>>)
       \/ \E p \in PoolsOver(NamedWords) : call = Pending("pick_smart", <<p>>)
       \/ \E raw \in DecodeLines : call = Pending("feedback_string_to_list", <<raw>>)
       \/ \E g \in {speed, erase}, f \in Feedbacks : call = Pending("format_feedback", <<g, f>>)
    /\ word_list = <<>>
    /\ candidates = <<>>
    /\ round_num = 1
    /\ guess = NoWord
    /\ pc = "idle"
    /\ err = FALSE
    /\ history = <<>>
    /\ fb_input = <<>>
    /\ secret = NoWord

Return(op, ret) ==
    /\ call.op = op
    /\ ~call.done
    /\ call' = [call EXCEPT !.done = TRUE, !.ret = ret]
    /\ UNCHANGED <<word_list, candidates, round_num, guess, pc, err, history, fb_input, secret>>

CallEvaluateGuess == Return("evaluate_guess", evaluate_guess(call.args[1], call.args[2]))

CallFilterCandidates ==
    Return("filter_candidates", filter_candidates(call.args[1], call.args[2], call.args[3]))

CallPickSmart == Return("pick_smart", pick_smart(call.args[1]))

CallFeedbackStringToList ==
    Return("feedback_string_to_list", feedback_string_to_list(call.args[1]))

CallFormatFeedback == Return("format_feedback", format_feedback(call.args[1], call.args[2]))

FnNext ==
    \/ CallEvaluateGuess
    \/ CallFilterCandidates
    \/ CallPickSmart
    \/ CallFeedbackStringToList
    \/ CallFormatFeedback

FnSpec == FnInit /\ [][FnNext]_vars

Done(op) == call.op = op /\ call.done

----------------------------------------------------------------------------
(* Properties. *)

Credited(g, fb, L) == Cardinality({i \in 1..WordLen : g[i] = L /\ fb[i] \in {1, 2}})

Occurrences(w, L) == Cardinality({i \in 1..Len(w) : w[i] = L})

\* the rounds before the current one: their guess and feedback are history[k]
EarlierRounds == {k \in 1..Len(history) : k < round_num}

(* C1: every word of the candidate pool gives, against every guess accepted *)
(* in an earlier round, the feedback that was entered in that round.        *)
C1Thm ==
    \A k \in EarlierRounds : \A i \in 1..Len(candidates) :
        evaluate_guess(history[k][1], candidates[i]) = history[k][2]

\* two rounds with different guesses have been filtered and a word is left
C1Witness ==
    /\ Len(history) >= 2
    /\ round_num >= 3
    /\ history[1][1] # history[2][1]
    /\ candidates # <<>>

(* C2: with a secret of the dictionary and the feedback of every round that *)
(* of the guess against the secret, the secret stays in the pool, the pool  *)
(* is never empty and the session never ends exhausted.                     *)
C2Thm ==
    /\ pc # "load" => secret \in Range(candidates) /\ candidates # <<>>
    /\ pc # "exhausted"

\* a round was filtered and removed words, the secret being the first word of the pool
C2Witness ==
    /\ Len(history) >= 1
    /\ pc = "top"
    /\ Len(candidates) < Len(word_list)
    /\ Len(candidates) >= 2
    /\ candidates[1] = secret

(* C3: in the feedback of evaluate_guess, the positions of the guess that   *)
(* hold a letter L and are marked 1 or 2 are at most as many as the         *)
(* occurrences of L in the secret.                                          *)
C3Thm ==
    Done("evaluate_guess") =>
        \A L \in Range(call.args[1]) :
            Credited(call.args[1], call.ret, L) <= Occurrences(call.args[2], L)

\* a letter the guess holds more often than the secret, credited as often as the
\* secret holds it, one of these a yellow
C3Witness ==
    /\ Done("evaluate_guess")
    /\ \E L \in Range(call.args[1]) :
          /\ Occurrences(call.args[1], L) > Occurrences(call.args[2], L)
          /\ Occurrences(call.args[2], L) >= 1
          /\ Credited(call.args[1], call.ret, L) = Occurrences(call.args[2], L)
          /\ \E i \in 1..WordLen : call.args[1][i] = L /\ call.ret[i] = 1

(* C4: filter_candidates returns exactly the words of the pool whose        *)
(* feedback against the guess equals the observed feedback at all 5         *)
(* positions, in the order of the pool.                                     *)
C4Thm ==
    Done("filter_candidates") =>
        LET pool == call.args[1]
            Matches(w) ==
                \A i \in 1..WordLen : evaluate_guess(call.args[2], w)[i] = call.args[3][i]
        IN  call.ret = SelectSeq(pool, Matches)

\* words are dropped before, between and after two different words that are kept
C4Witness ==
    /\ Done("filter_candidates")
    /\ Len(call.ret) = 2
    /\ call.ret[1] # call.ret[2]
    /\ Len(call.args[1]) = 3
    /\ call.args[1][1] = call.ret[1]
    /\ call.args[1][3] = call.ret[2]

\* the position-frequency score of w in pool: each letter at its first position in w
C5Score(pool, w) ==
    LET Term(i) == IF \E j \in 1..(i - 1) : w[j] = w[i] THEN 0
                   ELSE Cardinality({k \in 1..Len(pool) : pool[k][i] = w[i]})
    IN  Term(1) + Term(2) + Term(3) + Term(4) + Term(5)

\* the positions of pool with the most vowels, and those of them with the highest score
C5Heavy(pool) ==
    {k \in 1..Len(pool) : \A j \in 1..Len(pool) :
        Occurrences(pool[j], "a") + Occurrences(pool[j], "e") + Occurrences(pool[j], "i")
          + Occurrences(pool[j], "o") + Occurrences(pool[j], "u")
        <= Occurrences(pool[k], "a") + Occurrences(pool[k], "e") + Occurrences(pool[k], "i")
          + Occurrences(pool[k], "o") + Occurrences(pool[k], "u")}

C5Top(pool) ==
    {k \in C5Heavy(pool) : \A j \in C5Heavy(pool) : C5Score(pool, pool[j]) <= C5Score(pool, pool[k])}

(* C5: pick_smart on a non-empty pool returns the word that has the most    *)
(* vowel occurrences, among these the highest position-frequency score over *)
(* the entire pool, and among these the earliest position in the pool.      *)
C5Thm ==
    Done("pick_smart") /\ call.args[1] # <<>> =>
        LET pool == call.args[1]
            first == CHOOSE k \in C5Top(pool) : \A j \in C5Top(pool) : k <= j
        IN  call.ret = pool[first]

\* two different words share the most vowels and the highest score, and a word
\* with fewer vowels is in the pool
C5Witness ==
    /\ Done("pick_smart")
    /\ \E j, k \in C5Top(call.args[1]) : call.args[1][j] # call.args[1][k]
    /\ C5Heavy(call.args[1]) # 1..Len(call.args[1])

\* a line that is not 5 characters from g, y, b
C6Invalid(line) == Len(line) # 5 \/ \E i \in 1..Len(line) : line[i] \notin {"g", "y", "b"}

(* C6: a line that is rejected (not exit, and not 5 characters from g, y, b *)
(* once normalized) does not end the session and leaves the pool, the round *)
(* number and the accepted rounds as they were; the next prompt suggests    *)
(* the same guess.                                                          *)
C6Thm ==
    [][/\ (pc = "input" /\ pc' # "input" /\ fb_input' # Exit /\ C6Invalid(fb_input'))
            => /\ pc' = "top"
               /\ err'
               /\ candidates' = candidates
               /\ round_num' = round_num
               /\ history' = history
       /\ (pc = "top" /\ err)
            => /\ pc' = "input"
               /\ guess' = guess
               /\ candidates' = candidates
               /\ round_num' = round_num]_vars

\* after a rejected line in the second round, the prompt is shown again
C6Witness ==
    /\ pc = "input"
    /\ round_num = 2
    /\ fb_input # Exit
    /\ C6Invalid(fb_input)
    /\ Len(fb_input) = 5

(* C7: once the pool of a session is empty (the dictionary loaded), the     *)
(* session ends exhausted: no guess is selected (pick_smart never runs on   *)
(* an empty pool), no feedback is read, and the rounds made are neither     *)
(* retried nor rolled back.                                                 *)
C7Thm ==
    /\ [](guess # Raised /\ (pc = "input" => candidates # <<>>))
    /\ [][candidates = <<>> /\ pc # "load" =>
             /\ pc' = "exhausted"
             /\ UNCHANGED <<candidates, round_num, history, guess, fb_input>>]_vars

\* the session ended exhausted after a filter step
C7Witness ==
    /\ pc = "exhausted"
    /\ Len(history) >= 1
    /\ word_list # <<>>

\* the g/y/b line of a feedback: the table of feedback_string_to_list read backwards
C8Line(c) == [i \in 1..Len(c) |-> CASE c[i] = 2 -> "g" [] c[i] = 1 -> "y" [] c[i] = 0 -> "b"]

(* C8 as claimed: feedback_string_to_list gives back every feedback from    *)
(* what format_feedback makes of it.                                        *)
C8Original ==
    Done("format_feedback") =>
        feedback_string_to_list(call.ret) = [raised |-> FALSE, val |-> call.args[2]]

(* C8: feedback_string_to_list gives back every feedback c from the g/y/b   *)
(* line of c (g for 2, y for 1, b for 0); what format_feedback makes of c   *)
(* (5 emoji and the guess in brackets) it rejects.                          *)
C8Thm ==
    /\ Done("feedback_string_to_list") =>
          \A c \in Feedbacks :
              call.args[1] = C8Line(c) => call.ret = [raised |-> FALSE, val |-> c]
    /\ Done("format_feedback") => feedback_string_to_list(call.ret).raised

\* the line of a feedback that holds all three values has been decoded
C8Witness ==
    /\ Done("feedback_string_to_list")
    /\ call.args[1] = C8Line(<<2, 1, 0, 1, 2>>)

(* C9 as claimed: evaluate_guess("speed", "erase") is [1, 0, 1, 0, 0].      *)
C9Original ==
    Done("evaluate_guess") /\ call.args = <<speed, erase>> => call.ret = <<1, 0, 1, 0, 0>>

(* C9: evaluate_guess("speed", "erase") is [1, 0, 1, 1, 0]: erase holds two *)
(* e, so both e of speed are yellow.                                        *)
C9Thm ==
    Done("evaluate_guess") /\ call.args = <<speed, erase>> => call.ret = <<1, 0, 1, 1, 0>>

C9Witness == Done("evaluate_guess") /\ call.args = <<speed, erase>>

(* C10: with a secret of the dictionary and truthful feedback, every        *)
(* filtered round removes the guessed word, no word is suggested twice, the *)
(* accepted rounds are at most as many as the words of the dictionary, a    *)
(* session that ends solved has the secret as its guess, and the session    *)
(* does end solved.                                                         *)
C10Thm ==
    /\ [](/\ \A k \in EarlierRounds : history[k][1] \notin Range(candidates)
          /\ \A j, k \in 1..Len(history) : j # k => history[j][1] # history[k][1]
          /\ pc = "input" => \A k \in EarlierRounds : history[k][1] # guess
          /\ Len(history) <= Len(word_list)
          /\ pc # "load" => round_num <= Len(word_list)
          /\ pc = "solved" => guess = secret)
    /\ <>(pc = "solved")

\* solved in as many rounds as the dictionary has words, at least 3
C10Witness ==
    /\ pc = "solved"
    /\ Len(history) = Len(word_list)
    /\ Len(word_list) >= 3

====
